---- MODULE Spec2Model ----
(***************************************************************************)
(* A model of bioino/gff.py: the attribute codec (_get_gff_attributes and  *)
(* GffLine.__str__), the gap-fill engine (_gapfill_table) and the lookup   *)
(* table builder (lookup_table).                                           *)
(*                                                                         *)
(* A GffLine is a record [columns, attributes]; columns keeps the fields   *)
(* the builder reads (feature, start, end, strand), the other columns and  *)
(* the metadata are opaque to it.  attributes is a function from attribute *)
(* keys to values (a Python dict).  A lookup table is a function from      *)
(* integer coordinates to sequences of GffLines (defaultdict(list)).       *)
(***************************************************************************)
EXTENDS Integers, Sequences, FiniteSets, TLC

\* ---------------------------------------------------------------- bounds
\* Coordinates of the enumerated input records are 1..MaxCoord.
MaxCoord == 2
\* The stream that lookup_table consumes holds at most MaxRecords records.
MaxRecords == 2
\* Records handed to _gapfill_table alone: start in 1..MaxGapCoord,
\* end - start in 0..MaxGapLen.
MaxGapCoord == 22
MaxGapLen == 1
\* Attribute codec: number of pairs of a mapping, length of a key or value.
MaxAttrs == 2
MaxStrLen == 1

\* ------------------------------------------------------- program constants
\* lookup_table: range(last_feature.columns.end, last_feature.columns.end + 1000)
TrailingWindow == 1000

_GFF_FEATURE_BLOCKLIST == {"region", "repeat_region"}

\* Python's None (for last_feature before the first qualifying record).
None == [none |-> TRUE]

\* ------------------------------------------------------------ pure helpers
\* range(a, b)
PyRange(a, b) == a .. (b - 1)

\* dict | dict: the right operand wins on a key collision.
DictOr(left, right) == right @@ left

\* abs(x)
Abs(x) == IF x < 0 THEN -x ELSE x

\* max(lookup_table): the largest key (the key with no successor among the
\* keys that is at least every key).
MaxKey(t) ==
    CHOOSE k \in DOMAIN t : (k + 1) \notin DOMAIN t /\ \A j \in DOMAIN t : j <= k

GffColumns(feature, start, end, strand) ==
    [feature |-> feature, start |-> start, end |-> end, strand |-> strand]

GffLine(columns, attributes) == [columns |-> columns, attributes |-> attributes]

\* defaultdict(list): lookup_table[i] read without inserting
ListAt(t, i) == IF i \in DOMAIN t THEN t[i] ELSE << >>

\* ------------------------------------------------------------ _gapfill_table
\* A variant: the midpoint biased toward the higher coordinate.
gap_midpoint_ceil(last_end, this_start) ==
    LET gap_span == (this_start - 1) - (last_end + 1)
    IN  last_end + 1 + ((gap_span + 1) \div 2)

gap_midpoint_of(last_end, this_start) ==
    LET gap_span == (this_start - 1) - (last_end + 1)
    IN  last_end + 1 + (gap_span \div 2)

\* Lines 317-324: anchor coordinate, sign and tag of the predecessor half.
pre_mid_offset_start(intergenic0) ==
    IF intergenic0.columns.strand = "+"
    THEN intergenic0.columns.start ELSE intergenic0.columns.end

\* A variant: the predecessor half signed like the successor half.
pre_mid_sign_as_post(intergenic0) == IF intergenic0.columns.strand = "+" THEN -1 ELSE 1

pre_mid_sign(intergenic0) == IF intergenic0.columns.strand = "+" THEN 1 ELSE -1

pre_mid_prefix(intergenic0, last_feature) ==
    IF intergenic0.columns.strand = "+"
    THEN (IF last_feature # None THEN "_down-" ELSE "_up-")
    ELSE (IF last_feature # None THEN "_up-" ELSE "_down-")

\* Lines 326-333: anchor coordinate, sign and tag of the successor half.
post_mid_offset_start(intergenic1) ==
    IF intergenic1.columns.strand = "+"
    THEN intergenic1.columns.start ELSE intergenic1.columns.end

\* A variant: the successor half signed like the predecessor half.
post_mid_sign_as_pre(intergenic1) == IF intergenic1.columns.strand = "+" THEN 1 ELSE -1

post_mid_sign(intergenic1) == IF intergenic1.columns.strand = "+" THEN -1 ELSE 1

post_mid_prefix(intergenic1) ==
    IF intergenic1.columns.strand = "+" THEN "_up-" ELSE "_down-"

\* Lines 342-348: the keys of the first loop; lines 350-356: of the second.
pre_mid_range(last_end, this_start) ==
    PyRange(last_end + 1, gap_midpoint_of(last_end, this_start) + 1)

post_mid_range(last_end, this_start) ==
    PyRange(gap_midpoint_of(last_end, this_start) + 1, this_start)

_gapfill_table(gff_line, last_feature) ==
    LET this_start  == gff_line.columns.start
        last_end    == IF last_feature = None THEN 0 ELSE last_feature.columns.end
        intergenic0 == IF last_feature = None THEN gff_line ELSE last_feature
        intergenic1 == gff_line
        attr0 == DictOr(intergenic0.attributes,
                        [locus_tag |-> pre_mid_prefix(intergenic0, last_feature)
                                          \o intergenic0.attributes.Name])
        attr1 == DictOr(intergenic1.attributes,
                        [locus_tag |-> post_mid_prefix(intergenic1)
                                          \o intergenic1.attributes.Name])
        pre   == pre_mid_range(last_end, this_start)
        post  == post_mid_range(last_end, this_start)
        this_intergenic0(i) ==
            [intergenic0 EXCEPT !.attributes =
                DictOr(attr0, [offset |-> (i - pre_mid_offset_start(intergenic0))
                                             * pre_mid_sign(intergenic0)])]
        this_intergenic1(i) ==
            [intergenic1 EXCEPT !.attributes =
                DictOr(attr1, [offset |-> (i - post_mid_offset_start(intergenic1))
                                             * post_mid_sign(intergenic1)])]
    IN  [i \in pre \cup post |->
            (IF i \in pre  THEN << this_intergenic0(i) >> ELSE << >>) \o
            (IF i \in post THEN << this_intergenic1(i) >> ELSE << >>)]

\* ------------------------------------------------------------ lookup_table
\* A variant: child features are not filtered out.
QualifiesWithParent(gff_line) ==
    /\ gff_line.columns.feature \notin _GFF_FEATURE_BLOCKLIST
    /\ "Name" \in DOMAIN gff_line.attributes

\* Lines 395-397: the record anchors the table.
Qualifies(gff_line) ==
    /\ gff_line.columns.feature \notin _GFF_FEATURE_BLOCKLIST
    /\ "Name" \in DOMAIN gff_line.attributes
    /\ "Parent" \notin DOMAIN gff_line.attributes

\* Line 402: lookup_table |= gap_table (dict update: the gap table's lists
\* replace the lists stored at the same keys).
MergeGap(lookup, gap_table) == gap_table @@ lookup

\* Lines 404-415: one copy of gff_line per coordinate of its span, appended.
WithinFeature(lookup, gff_line) ==
    LET offset_start == IF gff_line.columns.strand = "+"
                        THEN gff_line.columns.start ELSE gff_line.columns.end
        span == PyRange(gff_line.columns.start, gff_line.columns.end + 1)
        this_gff_line(i) ==
            [gff_line EXCEPT !.attributes =
                DictOr(gff_line.attributes, [offset |-> Abs(i - offset_start)])]
    IN  [i \in DOMAIN lookup \cup span |->
            ListAt(lookup, i) \o
            (IF i \in span THEN << this_gff_line(i) >> ELSE << >>)]

\* Lines 399-415: the loop body for a qualifying record.
AddFeature(lookup, gff_line, last_feature) ==
    WithinFeature(MergeGap(lookup, _gapfill_table(gff_line, last_feature)), gff_line)

\* Lines 419-426
last_offset_start(last_feature) ==
    IF last_feature.columns.strand = "+"
    THEN last_feature.columns.start ELSE last_feature.columns.end

\* A variant: the trailing window signed by the successor-side rule.
last_sign_as_successor(last_feature) ==
    IF last_feature.columns.strand = "+" THEN -1 ELSE 1

last_sign(last_feature) == IF last_feature.columns.strand = "+" THEN 1 ELSE -1

last_prefix(last_feature) ==
    IF last_feature.columns.strand = "+" THEN "_down-" ELSE "_up-"

\* A variant: the trailing window starts two past the end of the last feature.
TrailingRangeDetached(last_feature) ==
    PyRange(last_feature.columns.end + 2,
            last_feature.columns.end + 2 + TrailingWindow)

\* Line 431-432: the keys of the trailing loop.
TrailingRange(last_feature) ==
    PyRange(last_feature.columns.end, last_feature.columns.end + TrailingWindow)

\* Lines 428-435: the record appended at trailing coordinate i.
TrailingRecord(last_feature, i) ==
    LET attr == DictOr(last_feature.attributes,
                       [locus_tag |-> last_prefix(last_feature)
                                         \o last_feature.attributes.Name])
    IN  [last_feature EXCEPT !.attributes =
            DictOr(attr, [offset |-> (i - last_offset_start(last_feature))
                                        * last_sign(last_feature)])]

\* Lines 419-437
AddTrailing(lookup, last_feature) ==
    LET trail == TrailingRange(last_feature)
    IN  [i \in DOMAIN lookup \cup trail |->
            ListAt(lookup, i) \o
            (IF i \in trail THEN << TrailingRecord(last_feature, i) >> ELSE << >>)]

\* A variant: the assertion also asks for coordinate 0.
CoverageAssertionFromZero(lookup) ==
    \A i \in PyRange(0, MaxKey(lookup) + 1) : Len(ListAt(lookup, i)) > 0

\* Line 439: all(len(lookup_table[i]) > 0 for i in range(1, max(lookup_table) + 1))
CoverageAssertion(lookup) ==
    \A i \in PyRange(1, MaxKey(lookup) + 1) : Len(ListAt(lookup, i)) > 0

\* ------------------------------------------------------------------ inputs
Names == << "A", "B", "C", "D", "E", "F" >>
Strands == {"+", "-"}

\* What a record of an enumerated stream looks like, its name apart: a parent
\* feature (named, no Parent) with 1 <= start <= end <= MaxCoord on either
\* strand, or one of the records lookup_table skips: a blocklisted feature
\* type, a record with no Name, a record with a Parent.
ParentShapes ==
    { [columns |-> GffColumns("gene", s, e, st), kind |-> "parent"] :
        s \in 1..MaxCoord, e \in 1..MaxCoord, st \in Strands }

Shapes ==
    { sh \in ParentShapes : sh.columns.start <= sh.columns.end } \cup
    { [columns |-> GffColumns("region", 1, MaxCoord, "+"), kind |-> "parent"],
      [columns |-> GffColumns("repeat_region", 1, 1, "-"), kind |-> "parent"],
      [columns |-> GffColumns("gene", MaxCoord, MaxCoord, "+"), kind |-> "unnamed"],
      [columns |-> GffColumns("CDS", 1, MaxCoord, "-"), kind |-> "child"] }

\* The attributes of the k-th record of a stream: records are named by position.
AttributesOf(kind, k) ==
    CASE kind = "parent"  -> [Name |-> Names[k]]
      [] kind = "unnamed" -> [ID |-> Names[k]]
      [] kind = "child"   -> [Name |-> Names[k], Parent |-> "A"]

MakeStream(shapes) ==
    [k \in 1..Len(shapes) |->
        GffLine(shapes[k].columns, AttributesOf(shapes[k].kind, k))]

EnumeratedStreams ==
    { MakeStream(sh) : sh \in UNION { [1..n -> Shapes] : n \in 0..MaxRecords } }

\* Two '+'-strand features, Name=A at [1,10] and Name=B at [21,30].
ScenarioStream ==
    << GffLine(GffColumns("gene", 1, 10, "+"), [Name |-> "A"]),
       GffLine(GffColumns("gene", 21, 30, "+"), [Name |-> "B"]) >>

\* A feature nested in another, then a feature overlapping the outer one.
NestedStream ==
    << GffLine(GffColumns("gene", 1, 6, "+"), [Name |-> "A"]),
       GffLine(GffColumns("gene", 2, 3, "-"), [Name |-> "B"]),
       GffLine(GffColumns("gene", 6, 8, "+"), [Name |-> "C"]) >>

Streams == EnumeratedStreams \cup {ScenarioStream, NestedStream}

\* The calls of _gapfill_table checked on their own: any current record, and
\* any previous record or None (not only a previous record that ends before
\* the current one starts: lookup_table does not check the order).
GapRecords(name) ==
    { GffLine(GffColumns("gene", s, s + len, st), [Name |-> name]) :
        s \in 1..MaxGapCoord, len \in 0..MaxGapLen, st \in Strands }

GapCalls ==
    [gff_line : GapRecords("B"), last_feature : GapRecords("A") \cup {None}]

\* ------------------------------------------------------------ attribute codec
\* A string is a sequence of characters.  Keys and values of the enumerated
\* mappings are made of KeyChars; the codec's separators are ";" and "=".
KeyChars == {"a", "b"}

Strings == UNION { [1..n -> KeyChars] : n \in 0..MaxStrLen }

\* A dict as its items in insertion order: pairs << key, value >>, keys distinct.
Mappings ==
    { m \in UNION { [1..n -> Strings \X Strings] : n \in 0..MaxAttrs } :
        \A i, j \in 1..Len(m) : i # j => m[i][1] # m[j][1] }

\* dict(items): the mapping as a function, the last value of a key winning.
RECURSIVE Dict(_)
Dict(items) ==
    IF items = << >> THEN << >>
    ELSE LET n == Len(items)
         IN  (items[n][1] :> items[n][2]) @@ Dict(SubSeq(items, 1, n - 1))

\* str.join
RECURSIVE Join(_, _)
Join(sep, parts) ==
    IF parts = << >> THEN << >>
    ELSE IF Len(parts) = 1 THEN parts[1]
    ELSE parts[1] \o sep \o Join(sep, Tail(parts))

\* str.split(sep) for a one-character separator: "".split(sep) is [""].
RECURSIVE Split(_, _)
Split(x, sep) ==
    IF \A i \in 1..Len(x) : x[i] # sep THEN << x >>
    ELSE LET i == CHOOSE i \in 1..Len(x) :
                     x[i] = sep /\ \A j \in 1..(i - 1) : x[j] # sep
         IN  << SubSeq(x, 1, i - 1) >> \o Split(SubSeq(x, i + 1, Len(x)), sep)

\* zip(a, b)
Zip(a, b) ==
    LET n == IF Len(a) < Len(b) THEN Len(a) ELSE Len(b)
    IN  [i \in 1..n |-> << a[i], b[i] >>]

\* GffLine.__str__, line 66: ';'.join([f'{key}={val}' for key, val in items])
EncodeAttributes(items) ==
    Join(<< ";" >>, [i \in 1..Len(items) |-> items[i][1] \o << "=" >> \o items[i][2]])

\* Line 160: the key of an '='-split field is the last of its ';'-split parts.
AttributeKey(item) == item[Len(item)]

\* A variant: the value taken from the last ';'-split part.
AttributeValueLast(item) == item[Len(item)]

\* Line 161: the value of an '='-split field is the first of its ';'-split parts.
AttributeValue(item) == item[1]

_get_gff_attributes(x) ==
    LET on_equal == Split(x, "=")
        splits_on_equal_sign ==
            [i \in 1..Len(on_equal) |-> Split(on_equal[i], ";")]
        attributes ==
            [i \in 1..Len(splits_on_equal_sign) |-> AttributeKey(splits_on_equal_sign[i])]
        values ==
            [i \in 1..(Len(splits_on_equal_sign) - 1) |->
                AttributeValue(splits_on_equal_sign[i + 1])]
    IN  Dict(Zip(attributes, values))

\* ------------------------------------------------------------------- state
VARIABLES
    pc,            \* lookup_table: "loop" while it iterates gff_stream, then its
                   \* outcome; _gapfill_table: "gapfill", "gapfilled";
                   \* codec: "encode", "decode", "decoded"
    gff_stream,    \* the records lookup_table is given
    nread,         \* number of records taken from gff_stream
    last_feature,  \* the last qualifying record (None before the first)
    lookup_table,  \* the accumulating table
    gap_call,      \* the arguments of a call of _gapfill_table
    gap_table,     \* what the call returned
    attributes,    \* a GffLine's attributes (items in insertion order)
    col9,          \* the attribute text of the line
    decoded        \* what _get_gff_attributes made of col9

builder_vars == << gff_stream, nread, last_feature, lookup_table >>
gap_vars     == << gap_call, gap_table >>
codec_vars   == << attributes, col9, decoded >>
vars == << pc, builder_vars, gap_vars, codec_vars >>

BuilderIdle == gff_stream = << >> /\ nread = 0 /\ last_feature = None /\ lookup_table = << >>
GapIdle     == gap_call = None /\ gap_table = << >>
CodecIdle   == attributes = << >> /\ col9 = << >> /\ decoded = << >>

\* ------------------------------------------------------------ lookup_table
\* Lines 389-391
Init ==
    /\ gff_stream \in Streams
    /\ pc = "loop"
    /\ nread = 0
    /\ last_feature = None
    /\ lookup_table = << >>
    /\ GapIdle
    /\ CodecIdle

\* Lines 393-417, a record that qualifies.
ProcessRecord ==
    /\ pc = "loop"
    /\ nread < Len(gff_stream)
    /\ LET gff_line == gff_stream[nread + 1]
       IN  /\ Qualifies(gff_line)
           /\ lookup_table' = AddFeature(lookup_table, gff_line, last_feature)
           /\ last_feature' = gff_line
    /\ nread' = nread + 1
    /\ UNCHANGED << gff_stream, pc, gap_vars, codec_vars >>

\* Lines 393-397, a record that does not qualify.
SkipRecord ==
    /\ pc = "loop"
    /\ nread < Len(gff_stream)
    /\ ~Qualifies(gff_stream[nread + 1])
    /\ nread' = nread + 1
    /\ UNCHANGED << gff_stream, pc, last_feature, lookup_table, gap_vars, codec_vars >>

\* Line 419 when no record qualified: last_feature is None and
\* last_feature.columns raises AttributeError.
EndOfStreamNoFeature ==
    /\ pc = "loop"
    /\ nread = Len(gff_stream)
    /\ last_feature = None
    /\ pc' = "AttributeError"
    /\ UNCHANGED << builder_vars, gap_vars, codec_vars >>

\* Lines 419-441: the trailing window, the coverage assertion, the return.
EndOfStream ==
    /\ pc = "loop"
    /\ nread = Len(gff_stream)
    /\ last_feature # None
    /\ LET final == AddTrailing(lookup_table, last_feature)
       IN  /\ lookup_table' = final
           /\ pc' = IF CoverageAssertion(final) THEN "returned" ELSE "AssertionError"
    /\ UNCHANGED << gff_stream, nread, last_feature, gap_vars, codec_vars >>

Next == ProcessRecord \/ SkipRecord \/ EndOfStreamNoFeature \/ EndOfStream

Spec == Init /\ [][Next]_vars

\* ---------------------------------------------------------- _gapfill_table
InitGap ==
    /\ pc = "gapfill"
    /\ gap_call \in GapCalls
    /\ gap_table = << >>
    /\ BuilderIdle
    /\ CodecIdle

\* Lines 295-358
Gapfill ==
    /\ pc = "gapfill"
    /\ gap_table' = _gapfill_table(gap_call.gff_line, gap_call.last_feature)
    /\ pc' = "gapfilled"
    /\ UNCHANGED << gap_call, builder_vars, codec_vars >>

NextGap == Gapfill

SpecGap == InitGap /\ [][NextGap]_vars

\* ------------------------------------------------------------ attribute codec
InitCodec ==
    /\ pc = "encode"
    /\ attributes \in Mappings
    /\ col9 = << >>
    /\ decoded = << >>
    /\ BuilderIdle
    /\ GapIdle

\* GffLine.__str__, line 66
Encode ==
    /\ pc = "encode"
    /\ col9' = EncodeAttributes(attributes)
    /\ pc' = "decode"
    /\ UNCHANGED << attributes, decoded, builder_vars, gap_vars >>

\* _get_gff_attributes, lines 156-163
Decode ==
    /\ pc = "decode"
    /\ decoded' = _get_gff_attributes(col9)
    /\ pc' = "decoded"
    /\ UNCHANGED << attributes, col9, builder_vars, gap_vars >>

NextCodec == Encode \/ Decode

SpecCodec == InitCodec /\ [][NextCodec]_vars

\* ================================================================== claims
\* lookup_table has ended, one way or the other.
Ended == pc \in {"returned", "AssertionError", "AttributeError"}

\* The qualifying records of a stream, in order.
Parents(stream) == SelectSeq(stream, Qualifies)

\* The last entry of the list at coordinate i (the trailing loop appends last).
LastAt(t, i) == t[i][Len(t[i])]

\* A record is a pseudo-record tagged tag.
Tagged(r, tag) ==
    "locus_tag" \in DOMAIN r.attributes /\ r.attributes.locus_tag = tag

\* A copy of feature f with the within-feature offset o and no tag.
WithinCopy(f, o) == [f EXCEPT !.attributes = [offset |-> o] @@ f.attributes]

\* ---- C1 ----------------------------------------------------------------
\* C1: for the stream A = [1,10] '+', B = [21,30] '+', the returned table holds
\* at keys 1..10 a copy of A with offset i-1, at keys 11..15 a '_down-A'
\* pseudo-record, at keys 16..20 an '_up-B' pseudo-record, at keys 21..30 a
\* copy of B with offset i-21, and at keys 31..1030 a '_down-B' trailing
\* entry; in general the trailing entries of a returned table occupy exactly
\* the keys N+1..N+1000, N the end of the last qualifying feature.
C1_ScenarioTable ==
    /\ (pc = "returned" /\ gff_stream = ScenarioStream) =>
          LET A == ScenarioStream[1]
              B == ScenarioStream[2]
          IN  /\ DOMAIN lookup_table = 1..1030
              /\ \A i \in 1..10  : lookup_table[i] = << WithinCopy(A, i - 1) >>
              /\ \A i \in 11..15 : /\ Len(lookup_table[i]) = 1
                                   /\ Tagged(lookup_table[i][1], "_down-A")
              /\ \A i \in 16..20 : /\ Len(lookup_table[i]) = 1
                                   /\ Tagged(lookup_table[i][1], "_up-B")
              /\ \A i \in 21..30 : lookup_table[i] = << WithinCopy(B, i - 21) >>
              /\ \A i \in 31..1030 : /\ Len(lookup_table[i]) = 1
                                     /\ Tagged(lookup_table[i][1], "_down-B")
    /\ pc = "returned" =>
          LET N == last_feature.columns.end
              tag == (IF last_feature.columns.strand = "+" THEN "_down-" ELSE "_up-")
                        \o last_feature.attributes.Name
          IN  { i \in DOMAIN lookup_table :
                  \E k \in 1..Len(lookup_table[i]) :
                      /\ Tagged(lookup_table[i][k], tag)
                      /\ lookup_table[i][k].columns = last_feature.columns }
              = (N + 1)..(N + 1000)

\* ---- C2 ----------------------------------------------------------------
\* Every coordinate from 1 to the largest key of t maps to a non-empty list.
Covered(t) ==
    \A i \in 1..MaxKey(t) : i \in DOMAIN t /\ Len(t[i]) > 0

\* C2: for a stream with at least one qualifying record (every start >= 1),
\* lookup_table returns a table (its assertion does not fail), and in the
\* table it returns every integer coordinate from 1 to the largest key maps to
\* a non-empty list.
C2_Coverage ==
    pc \in {"returned", "AssertionError"} =>
        pc = "returned" /\ Covered(lookup_table)

\* Reached: a table returned for a stream of two parents with a gap between.
C2_Witness ==
    /\ pc = "returned"
    /\ gff_stream = ScenarioStream
    /\ MaxKey(lookup_table) > 1000

\* ---- C3 ----------------------------------------------------------------
\* The records the claim says are skipped.
ClaimSkipped(r) ==
    \/ r.columns.feature \in {"region", "repeat_region"}
    \/ "Name" \notin DOMAIN r.attributes
    \/ "Parent" \in DOMAIN r.attributes

\* lookup_table as a function of a stream of parent features only: every
\* record goes through the loop body, then the trailing window is added.
RECURSIVE LoopOver(_, _)
LoopOver(stream, n) ==
    IF n = 0 THEN << >>
    ELSE AddFeature(LoopOver(stream, n - 1), stream[n],
                    IF n = 1 THEN None ELSE stream[n - 1])

TableOfParents(stream) ==
    AddTrailing(LoopOver(stream, Len(stream)), stream[Len(stream)])

NotClaimSkipped(r) == ~ClaimSkipped(r)

\* C3: taking a record whose feature type is 'region' or 'repeat_region', or
\* that has no Name, or that has a Parent, leaves the accumulating table and
\* last_feature unchanged; and the returned table is the table built from the
\* stream with all such records removed.
C3_SkipFrame ==
    /\ [][ (pc = "loop" /\ nread' = nread + 1 /\ ClaimSkipped(gff_stream[nread + 1]))
              => (lookup_table' = lookup_table /\ last_feature' = last_feature) ]_vars
    /\ [](pc = "returned" =>
              lookup_table = TableOfParents(SelectSeq(gff_stream, NotClaimSkipped)))

\* Reached: a returned table for a stream whose second record was skipped
\* after a parent feature had been added.
C3_Witness ==
    /\ pc = "returned"
    /\ Len(gff_stream) = 2
    /\ ~ClaimSkipped(gff_stream[1])
    /\ ClaimSkipped(gff_stream[2])
    /\ last_feature = gff_stream[1]

\* ---- C4 ----------------------------------------------------------------
\* The call's previous end (0 if absent), the length of the gap, the record
\* that anchors the first half, and the midpoint as the claim computes it.
CallLastEnd ==
    IF gap_call.last_feature = None THEN 0 ELSE gap_call.last_feature.columns.end

CallGapLength == gap_call.gff_line.columns.start - CallLastEnd - 1

CallPredecessor ==
    IF gap_call.last_feature = None THEN gap_call.gff_line ELSE gap_call.last_feature

CallMidpoint ==
    CallLastEnd + 1 + (((gap_call.gff_line.columns.start - 1) - (CallLastEnd + 1)) \div 2)

\* ceil(n / 2) and floor(n / 2) for n >= 0
CeilHalf(n) == (n + 1) \div 2
FloorHalf(n) == n \div 2

\* The record r is anchored to the feature f: it has f's columns and Name.
AnchoredTo(r, f) ==
    r.columns = f.columns /\ r.attributes.Name = f.attributes.Name

\* C4: the output of _gapfill_table has exactly the keys last_end+1 ..
\* current.start-1 (none when L <= 0), each mapped to a list of exactly one
\* pseudo-record; the keys up to gap_midpoint are anchored to the predecessor
\* (previous, or current when previous is absent), the keys after it to
\* current; the predecessor half has ceil(L/2) keys, the successor half
\* floor(L/2).
C4_GapKeys ==
    pc = "gapfilled" =>
        LET cur  == gap_call.gff_line
            keys == (CallLastEnd + 1)..(cur.columns.start - 1)
            pre  == { i \in keys : i <= CallMidpoint }
            post == { i \in keys : i > CallMidpoint }
        IN  /\ DOMAIN gap_table = keys
            /\ CallGapLength <= 0 => DOMAIN gap_table = {}
            /\ \A i \in keys : Len(gap_table[i]) = 1
            /\ \A i \in pre  : AnchoredTo(gap_table[i][1], CallPredecessor)
            /\ \A i \in post : AnchoredTo(gap_table[i][1], cur)
            /\ CallGapLength > 0 =>
                  /\ Cardinality(pre) = CeilHalf(CallGapLength)
                  /\ Cardinality(post) = FloorHalf(CallGapLength)
                  /\ pre = (CallLastEnd + 1)..CallMidpoint
                  /\ post = (CallMidpoint + 1)..(cur.columns.start - 1)

\* Reached: previous.end = 10, current.start = 21: keys 11..20, 11..15 on
\* previous and 16..20 on current.
C4_Witness ==
    /\ pc = "gapfilled"
    /\ gap_call.last_feature # None
    /\ gap_call.last_feature.columns.end = 10
    /\ gap_call.gff_line.columns.start = 21
    /\ CallMidpoint = 15
    /\ DOMAIN gap_table = 11..20
    /\ AnchoredTo(gap_table[15][1], gap_call.last_feature)
    /\ AnchoredTo(gap_table[16][1], gap_call.gff_line)

\* ---- C5 ----------------------------------------------------------------
\* The pseudo-record the claim describes: the anchor's columns, the anchor's
\* attributes extended with locus_tag = tag + Name and offset = (i - coord) * sign.
PseudoRecord(anchor, tag, coord, sign, i) ==
    [columns |-> anchor.columns,
     attributes |-> [locus_tag |-> tag \o anchor.attributes.Name,
                     offset |-> (i - coord) * sign] @@ anchor.attributes]

\* The predecessor-anchored half, as the claim states it.
ClaimPredecessorRecord(i) ==
    LET anchor == CallPredecessor
        true_predecessor == gap_call.last_feature # None
    IN  IF anchor.columns.strand = "+"
        THEN PseudoRecord(anchor, IF true_predecessor THEN "_down-" ELSE "_up-",
                          anchor.columns.start, 1, i)
        ELSE PseudoRecord(anchor, IF true_predecessor THEN "_up-" ELSE "_down-",
                          anchor.columns.end, -1, i)

\* The successor-anchored half, as the claim states it.
ClaimSuccessorRecord(i) ==
    LET anchor == gap_call.gff_line
    IN  IF anchor.columns.strand = "+"
        THEN PseudoRecord(anchor, "_up-", anchor.columns.start, -1, i)
        ELSE PseudoRecord(anchor, "_down-", anchor.columns.end, 1, i)

\* C5: every pseudo-record that _gapfill_table emits at a gap coordinate i has
\* its anchor's columns and its anchor's attributes extended with locus_tag =
\* tag + Name and offset = (i - anchor_coordinate) * sign, the anchor
\* coordinate, the sign and the tag being those of the claim's table for the
\* predecessor half and for the successor half.
C5_PseudoRecords ==
    pc = "gapfilled" =>
        \A i \in DOMAIN gap_table :
            \A k \in 1..Len(gap_table[i]) :
                gap_table[i][k] = IF i <= CallMidpoint
                                  THEN ClaimPredecessorRecord(i)
                                  ELSE ClaimSuccessorRecord(i)

\* Reached: a '+'-strand current record with start = 21 after a '-'-strand
\* previous record: offset 1 at position 20, and a negative offset in the
\* predecessor half.
C5_Witness ==
    /\ pc = "gapfilled"
    /\ gap_call.last_feature # None
    /\ gap_call.last_feature.columns.strand = "-"
    /\ gap_call.last_feature.columns.end = 10
    /\ gap_call.gff_line.columns.strand = "+"
    /\ gap_call.gff_line.columns.start = 21
    /\ gap_table[20][1].attributes.offset = 1
    /\ gap_table[20][1].attributes.locus_tag = "_up-B"
    /\ gap_table[12][1].attributes.offset = -2
    /\ gap_table[12][1].attributes.locus_tag = "_up-A"

\* ---- C6 ----------------------------------------------------------------
\* The entry the trailing loop appended at coordinate i of the returned table.
TrailingEntry(i) == LastAt(lookup_table, i)

\* C6 as stated: every trailing-window entry has, at trailing coordinate i,
\* offset = (i - last_feature.start) * -1 on strand '+' and
\* (i - last_feature.end) * +1 on strand '-' (the successor-side rule), with
\* locus_tag '_down-' + Name on strand '+' and '_up-' + Name otherwise.
C6_SuccessorRule ==
    pc = "returned" =>
        \A i \in TrailingRange(last_feature) :
            /\ i \in DOMAIN lookup_table
            /\ TrailingEntry(i) =
                  IF last_feature.columns.strand = "+"
                  THEN PseudoRecord(last_feature, "_down-",
                                    last_feature.columns.start, -1, i)
                  ELSE PseudoRecord(last_feature, "_up-",
                                    last_feature.columns.end, 1, i)

\* C6 amended: every trailing-window entry has, at trailing coordinate i,
\* offset = (i - last_feature.start) * +1 on strand '+' and
\* (i - last_feature.end) * -1 on strand '-' (the rule of the predecessor half
\* with a true predecessor), with locus_tag '_down-' + Name on strand '+' and
\* '_up-' + Name otherwise.
C6_PredecessorRule ==
    pc = "returned" =>
        \A i \in TrailingRange(last_feature) :
            /\ i \in DOMAIN lookup_table
            /\ TrailingEntry(i) =
                  IF last_feature.columns.strand = "+"
                  THEN PseudoRecord(last_feature, "_down-",
                                    last_feature.columns.start, 1, i)
                  ELSE PseudoRecord(last_feature, "_up-",
                                    last_feature.columns.end, -1, i)

\* Reached: a returned table whose last feature is on the '-' strand, with a
\* negative offset in its trailing window; and one on the '+' strand.
C6_Witness ==
    /\ pc = "returned"
    /\ last_feature.columns.strand = "-"
    /\ TrailingEntry(last_feature.columns.end + 5).attributes.offset = -5
    /\ TrailingEntry(last_feature.columns.end + 5).attributes.locus_tag
          = "_up-" \o last_feature.attributes.Name

\* ---- C7 ----------------------------------------------------------------
\* Some qualifying record starts at or below the end of an earlier one.
Unsorted(stream) ==
    LET ps == Parents(stream)
    IN  \E j, k \in 1..Len(ps) :
            j < k /\ ps[k].columns.start <= ps[j].columns.end

\* C7 as stated: when the qualifying records are not sorted by ascending
\* coordinate, lookup_table fails on its coverage assertion instead of
\* returning a table.
C7_UnsortedFails ==
    (Ended /\ Unsorted(gff_stream)) => pc = "AssertionError"

\* C7 amended: when the qualifying records are not sorted by ascending
\* coordinate, the coverage assertion of lookup_table still passes and
\* lookup_table returns a table.
C7_UnsortedReturns ==
    (Ended /\ Unsorted(gff_stream)) => pc = "returned"

\* Reached: a table returned for a stream whose second parent lies wholly
\* before the first.
C7_Witness ==
    /\ pc = "returned"
    /\ Len(Parents(gff_stream)) = 2
    /\ Parents(gff_stream)[2].columns.end < Parents(gff_stream)[1].columns.start

\* ---- C8 ----------------------------------------------------------------
\* C8: for every stream with exactly one qualifying parent feature,
\* lookup_table fails (raises) rather than returning a lookup table.
C8_SingleParentFails ==
    (Ended /\ Len(Parents(gff_stream)) = 1) => pc # "returned"

\* ---- C9 ----------------------------------------------------------------
\* C9: decoding with _get_gff_attributes the text that joins the 'key=value'
\* pairs of a mapping with ';' yields a mapping equal to it, for every mapping
\* whose keys and values hold no ';' and no '=' (the empty mapping and empty
\* keys or values included).
C9_RoundTrip ==
    pc = "decoded" => decoded = Dict(attributes)

\* Reached: the round trip of a mapping of two pairs, one with the empty key
\* and one with an empty value.
C9_Witness ==
    /\ pc = "decoded"
    /\ Len(attributes) = 2
    /\ attributes[1][1] = << >>
    /\ attributes[2][2] = << >>
    /\ DOMAIN decoded = {attributes[1][1], attributes[2][1]}

\* ---- C10 ---------------------------------------------------------------
\* C10: once a record has been added to the list at a coordinate, it is in
\* that coordinate's list in every later state of the build and in the
\* returned table (a step of lookup_table removes no record from a list).
C10_RecordsKept ==
    [][ \A i \in DOMAIN lookup_table :
            \A k \in 1..Len(lookup_table[i]) :
                /\ i \in DOMAIN lookup_table'
                /\ \E k2 \in 1..Len(lookup_table'[i]) :
                      lookup_table'[i][k2] = lookup_table[i][k] ]_vars

\* ---- C11 ---------------------------------------------------------------
\* The pseudo-records of the table: the entries that carry a locus_tag, each
\* with the coordinate it is stored at.
PseudoEntries(t) ==
    UNION { { << i, k >> : k \in { j \in 1..Len(t[i]) :
                                    "locus_tag" \in DOMAIN t[i][j].attributes } } :
            i \in DOMAIN t }

\* The entry's locus_tag is prefix + Name.
HasPrefix(r, prefix) == r.attributes.locus_tag = prefix \o r.attributes.Name

TagPrefixes == {"_up-", "_down-"}

\* The entry lies at or past the end of the feature it is derived from: it
\* comes from a predecessor half with a true predecessor or from the trailing
\* window (the other pseudo-records lie before their feature's start).
PastAnchor(t, e) == e[1] >= t[e[1]][e[2]].columns.end

====
